---- MODULE Spec2Model ----
(***************************************************************************)
(* The LED pattern sequencer of src/main.rs (STM32F411 "Black Pill").      *)
(*                                                                         *)
(* The program is one thread.  Its position is pc, the number of the       *)
(* source line of src/main.rs that executes next; one action is one        *)
(* statement of main.  pc = 4 is the panic-halt handler (line 4).          *)
(***************************************************************************)
EXTENDS Integers, Sequences, FiniteSets, TLC

VARIABLES
    pc,              \* line of src/main.rs executed next
    sequence_index,  \* main.rs:28, the pattern index (i32)
    iter,            \* the iterator of the `for` loop being run, or None
    i,               \* the loop variable of the Breathing loops (i32)
    lastWrite,       \* last write to PC13: "none", "set_low" or "set_high"
    log,             \* history: the GPIO writes and delays of the current pattern
    executed,        \* history: the match arms entered, in order (first MaxHist)
    peripherals      \* the taken flags of the two Peripherals singletons

vars == <<pc, sequence_index, iter, i, lastWrite, log, executed, peripherals>>

\* How many entered arms the history `executed` records; the program itself
\* runs on unchanged when it is full.
MaxHist == 9

----------------------------------------------------------------------------
\* Rust values

\* Option<Range>: no loop is running / the items a running loop has left
None == [some |-> FALSE, items |-> <<>>]
Some(s) == [some |-> TRUE, items |-> s]

\* Range with the end taken as inclusive (a..=b written for a..b)
Range_EndInclusive(a, b) == [k \in 1..(b - a + 1) |-> a + k - 1]

\* a..b, the exclusive range, as the sequence of the items it yields
Range(a, b) == [k \in 1..(b - a) |-> a + k - 1]

\* RangeInclusive that runs one past its end
RangeInclusive_OneMore(a, b) == [k \in 1..(b - a + 2) |-> a + k - 1]

\* RangeInclusive with the end left out (a..b written for a..=b)
RangeInclusive_EndExclusive(a, b) == [k \in 1..(b - a) |-> a + k - 1]

\* a..=b, the inclusive range
RangeInclusive(a, b) == [k \in 1..(b - a + 1) |-> a + k - 1]

\* Iterator::rev
Rev(s) == [k \in 1..Len(s) |-> s[Len(s) + 1 - k]]

\* `x as u32` for an i32 x: the value modulo 2^32 (2^32 = 2 * 2147483647 + 2)
AsU32(x) == IF x >= 0 THEN x ELSE ((x + 2147483647) + 2147483647) + 2

\* the i32 remainder a % b of Rust (truncated: the sign of a)
Rem(a, b) == IF a >= 0 THEN a % b ELSE -((-a) % b)

----------------------------------------------------------------------------
\* The state at the entry of main.  sequence_index and i are not live before
\* their declarations (lines 28, 87, 94).  Whether a Peripherals singleton is
\* still free at the entry is the platform's: take() yields None when it is not.
Init ==
    /\ pc = 14
    /\ sequence_index = 0
    /\ iter = None
    /\ i = 0
    /\ lastWrite = "none"
    /\ log = <<>>
    /\ executed = <<>>
    /\ peripherals \in [device : BOOLEAN, core : BOOLEAN]

\* line 14: pac::Peripherals::take().unwrap(); None panics, and panic_halt halts
TakeDevicePeripherals ==
    /\ pc = 14
    /\ IF peripherals.device
       THEN pc' = 4 /\ peripherals' = peripherals
       ELSE pc' = 15 /\ peripherals' = [peripherals EXCEPT !.device = TRUE]
    /\ UNCHANGED <<sequence_index, iter, i, lastWrite, log, executed>>

\* TakeCorePeripherals that goes on when take() yields None (steal() for
\* take().unwrap())
TakeCorePeripherals_Unchecked ==
    /\ pc = 15
    /\ pc' = 18
    /\ peripherals' = [peripherals EXCEPT !.core = TRUE]
    /\ UNCHANGED <<sequence_index, iter, i, lastWrite, log, executed>>

\* line 15: cortex_m::Peripherals::take().unwrap()
TakeCorePeripherals ==
    /\ pc = 15
    /\ IF peripherals.core
       THEN pc' = 4 /\ peripherals' = peripherals
       ELSE pc' = 18 /\ peripherals' = [peripherals EXCEPT !.core = TRUE]
    /\ UNCHANGED <<sequence_index, iter, i, lastWrite, log, executed>>

\* Setup that starts the index at 1 (let mut sequence_index = 1)
Setup_StartsAtOne ==
    /\ pc = 18
    /\ sequence_index' = 1
    /\ pc' = 31
    /\ UNCHANGED <<iter, i, lastWrite, log, executed, peripherals>>

\* lines 18-28: clocks, delay, the LED pin (no write to it), sequence_index = 0
Setup ==
    /\ pc = 18
    /\ sequence_index' = 0
    /\ pc' = 31
    /\ UNCHANGED <<iter, i, lastWrite, log, executed, peripherals>>

----------------------------------------------------------------------------
\* The statements of the loop body

\* set_low on a pin taken as active-high: the write drives the pin high
set_low_ActiveHigh(at, to) ==
    /\ pc = at
    /\ lastWrite' = "set_high"
    /\ log' = Append(log, <<"set_high">>)
    /\ pc' = to
    /\ UNCHANGED <<sequence_index, iter, i, executed, peripherals>>

\* led.set_low() at line `at`, then line `to`
set_low(at, to) ==
    /\ pc = at
    /\ lastWrite' = "set_low"
    /\ log' = Append(log, <<"set_low">>)
    /\ pc' = to
    /\ UNCHANGED <<sequence_index, iter, i, executed, peripherals>>

\* set_high that drives the pin low
set_high_DrivesLow(at, to) ==
    /\ pc = at
    /\ lastWrite' = "set_low"
    /\ log' = Append(log, <<"set_low">>)
    /\ pc' = to
    /\ UNCHANGED <<sequence_index, iter, i, executed, peripherals>>

\* led.set_high() at line `at`, then line `to`
set_high(at, to) ==
    /\ pc = at
    /\ lastWrite' = "set_high"
    /\ log' = Append(log, <<"set_high">>)
    /\ pc' = to
    /\ UNCHANGED <<sequence_index, iter, i, executed, peripherals>>

\* delay.delay_ms(ms) at line `at`, then line `to`: blocks, then returns
delay_ms(at, to, ms) ==
    /\ pc = at
    /\ log' = Append(log, <<"delay_ms", ms>>)
    /\ pc' = to
    /\ UNCHANGED <<sequence_index, iter, i, lastWrite, executed, peripherals>>

\* `for _ in range` at line `at`: the first arrival makes the iterator; each
\* arrival takes its next item and runs `body`, or ends the loop at `exit`
for_each(at, range, body, exit) ==
    /\ pc = at
    /\ LET it == IF iter.some THEN iter.items ELSE range
       IN  IF it = <<>>
           THEN /\ pc' = exit
                /\ iter' = None
           ELSE /\ pc' = body
                /\ iter' = Some(Tail(it))
    /\ UNCHANGED <<sequence_index, i, lastWrite, log, executed, peripherals>>

\* `for i in range` at line `at`: as for_each, binding the item to i
for_i(at, range, body, exit) ==
    /\ pc = at
    /\ LET it == IF iter.some THEN iter.items ELSE range
       IN  IF it = <<>>
           THEN /\ pc' = exit
                /\ iter' = None
                /\ i' = i
           ELSE /\ pc' = body
                /\ iter' = Some(Tail(it))
                /\ i' = Head(it)
    /\ UNCHANGED <<sequence_index, lastWrite, log, executed, peripherals>>

\* The line of the arm `match sequence_index` takes (lines 33, 44, 55, 85)
Arm(index) ==
    CASE index = 0 -> 34
      [] index = 1 -> 45
      [] index = 2 -> 57
      [] OTHER -> 87

\* The pattern an arm runs, by the comment that names it (lines 32, 43, 54, 84)
ArmName(line) ==
    CASE line = 34 -> "Fast"
      [] line = 45 -> "Slow"
      [] line = 57 -> "SOS"
      [] line = 87 -> "Breathing"

\* line 31: match sequence_index
Match ==
    /\ pc = 31
    /\ pc' = Arm(sequence_index)
    /\ log' = <<>>
    /\ executed' = IF Len(executed) < MaxHist
                   THEN Append(executed, ArmName(Arm(sequence_index)))
                   ELSE executed
    /\ UNCHANGED <<sequence_index, iter, i, lastWrite, peripherals>>

\* Fast that never switches the LED off (line 37 left out)
Fast_NoSetHigh ==
    \/ for_each(34, Range(0, 3), 35, 40)
    \/ set_low(35, 36)
    \/ delay_ms(36, 38, 100)
    \/ delay_ms(38, 34, 100)
    \/ delay_ms(40, 105, 1000)

\* Fast whose on-duration picks up the loop variable the last Breathing left
Fast_StaleLoopVariable ==
    \/ for_each(34, Range(0, 3), 35, 40)
    \/ set_low(35, 36)
    \/ delay_ms(36, 37, AsU32(100 + i))
    \/ set_high(37, 38)
    \/ delay_ms(38, 34, 100)
    \/ delay_ms(40, 105, 1000)

\* lines 33-41
Fast ==
    \/ for_each(34, Range(0, 3), 35, 40)
    \/ set_low(35, 36)
    \/ delay_ms(36, 37, 100)
    \/ set_high(37, 38)
    \/ delay_ms(38, 34, 100)
    \/ delay_ms(40, 105, 1000)

\* Slow with 3 pulses (0..3 written for 0..2)
Slow_ThreePulses ==
    \/ for_each(45, Range(0, 3), 46, 51)
    \/ set_low(46, 47)
    \/ delay_ms(47, 48, 500)
    \/ set_high(48, 49)
    \/ delay_ms(49, 45, 500)
    \/ delay_ms(51, 105, 1000)

\* Slow with half-periods of 250 ms
Slow_QuarterSecond ==
    \/ for_each(45, Range(0, 2), 46, 51)
    \/ set_low(46, 47)
    \/ delay_ms(47, 48, 250)
    \/ set_high(48, 49)
    \/ delay_ms(49, 45, 250)
    \/ delay_ms(51, 105, 1000)

\* lines 44-52
Slow ==
    \/ for_each(45, Range(0, 2), 46, 51)
    \/ set_low(46, 47)
    \/ delay_ms(47, 48, 500)
    \/ set_high(48, 49)
    \/ delay_ms(49, 45, 500)
    \/ delay_ms(51, 105, 1000)

\* SOS with short pulses for the O (200 written for 600 at line 68)
SOS_ShortO ==
    \/ for_each(57, Range(0, 3), 58, 63)
    \/ set_low(58, 59)
    \/ delay_ms(59, 60, 200)
    \/ set_high(60, 61)
    \/ delay_ms(61, 57, 200)
    \/ delay_ms(63, 66, 200)
    \/ for_each(66, Range(0, 3), 67, 72)
    \/ set_low(67, 68)
    \/ delay_ms(68, 69, 200)
    \/ set_high(69, 70)
    \/ delay_ms(70, 66, 200)
    \/ delay_ms(72, 75, 200)
    \/ for_each(75, Range(0, 3), 76, 81)
    \/ set_low(76, 77)
    \/ delay_ms(77, 78, 200)
    \/ set_high(78, 79)
    \/ delay_ms(79, 75, 200)
    \/ delay_ms(81, 105, 2000)

\* SOS without the pause between the first S and the O (line 63 left out)
SOS_NoLetterGap ==
    \/ for_each(57, Range(0, 3), 58, 66)
    \/ set_low(58, 59)
    \/ delay_ms(59, 60, 200)
    \/ set_high(60, 61)
    \/ delay_ms(61, 57, 200)
    \/ for_each(66, Range(0, 3), 67, 72)
    \/ set_low(67, 68)
    \/ delay_ms(68, 69, 600)
    \/ set_high(69, 70)
    \/ delay_ms(70, 66, 200)
    \/ delay_ms(72, 75, 200)
    \/ for_each(75, Range(0, 3), 76, 81)
    \/ set_low(76, 77)
    \/ delay_ms(77, 78, 200)
    \/ set_high(78, 79)
    \/ delay_ms(79, 75, 200)
    \/ delay_ms(81, 105, 2000)

\* lines 55-82
SOS ==
    \/ for_each(57, Range(0, 3), 58, 63)
    \/ set_low(58, 59)
    \/ delay_ms(59, 60, 200)
    \/ set_high(60, 61)
    \/ delay_ms(61, 57, 200)
    \/ delay_ms(63, 66, 200)
    \/ for_each(66, Range(0, 3), 67, 72)
    \/ set_low(67, 68)
    \/ delay_ms(68, 69, 600)
    \/ set_high(69, 70)
    \/ delay_ms(70, 66, 200)
    \/ delay_ms(72, 75, 200)
    \/ for_each(75, Range(0, 3), 76, 81)
    \/ set_low(76, 77)
    \/ delay_ms(77, 78, 200)
    \/ set_high(78, 79)
    \/ delay_ms(79, 75, 200)
    \/ delay_ms(81, 105, 2000)

\* Breathing whose off-duration is the on-duration again (i * 10 at lines 91, 98)
Breathing_OffIsOn ==
    \/ for_i(87, RangeInclusive(1, 10), 88, 94)
    \/ set_low(88, 89)
    \/ delay_ms(89, 90, AsU32(i * 10))
    \/ set_high(90, 91)
    \/ delay_ms(91, 87, AsU32(i * 10))
    \/ for_i(94, Rev(RangeInclusive(1, 10)), 95, 100)
    \/ set_low(95, 96)
    \/ delay_ms(96, 97, AsU32(i * 10))
    \/ set_high(97, 98)
    \/ delay_ms(98, 94, AsU32(i * 10))
    \/ delay_ms(100, 105, 500)

\* lines 85-101
Breathing ==
    \/ for_i(87, RangeInclusive(1, 10), 88, 94)
    \/ set_low(88, 89)
    \/ delay_ms(89, 90, AsU32(i * 10))
    \/ set_high(90, 91)
    \/ delay_ms(91, 87, AsU32(100 - (i * 10)))
    \/ for_i(94, Rev(RangeInclusive(1, 10)), 95, 100)
    \/ set_low(95, 96)
    \/ delay_ms(96, 97, AsU32(i * 10))
    \/ set_high(97, 98)
    \/ delay_ms(98, 94, AsU32(100 - (i * 10)))
    \/ delay_ms(100, 105, 500)

\* Advance that steps backwards (- 1 written for + 1): the i32 remainder of
\* -1 is -1
Advance_Decrement ==
    /\ pc = 105
    /\ sequence_index' = Rem(sequence_index - 1, 4)
    /\ pc' = 31
    /\ UNCHANGED <<iter, i, lastWrite, log, executed, peripherals>>

\* Advance over 3 patterns (% 3 written for % 4)
Advance_ModThree ==
    /\ pc = 105
    /\ sequence_index' = Rem(sequence_index + 1, 3)
    /\ pc' = 31
    /\ UNCHANGED <<iter, i, lastWrite, log, executed, peripherals>>

\* line 105: sequence_index = (sequence_index + 1) % 4; then `loop` again
Advance ==
    /\ pc = 105
    /\ sequence_index' = Rem(sequence_index + 1, 4)
    /\ pc' = 31
    /\ UNCHANGED <<iter, i, lastWrite, log, executed, peripherals>>

Next ==
    \/ TakeDevicePeripherals
    \/ TakeCorePeripherals
    \/ Setup
    \/ Match
    \/ Fast
    \/ Slow
    \/ SOS
    \/ Breathing
    \/ Advance

Spec == Init /\ [][Next]_vars

\* The processor runs the next statement whenever there is one: main is one
\* thread with no preemption, and every delay_ms call returns.
FairSpec == Spec /\ WF_vars(Next)

----------------------------------------------------------------------------
\* What one execution of a pattern emitted, read off the history `log`

RECURSIVE SumDelays(_)
\* the sum of the durations of the delays in `s`
SumDelays(s) ==
    IF s = <<>> THEN 0
    ELSE (IF Head(s)[1] = "delay_ms" THEN Head(s)[2] ELSE 0) + SumDelays(Tail(s))

RECURSIVE Repeat(_, _)
\* `s` repeated `n` times
Repeat(n, s) == IF n = 0 THEN <<>> ELSE s \o Repeat(n - 1, s)

RECURSIVE Flatten(_)
\* the concatenation of the sequences in `ss`
Flatten(ss) == IF ss = <<>> THEN <<>> ELSE Head(ss) \o Flatten(Tail(ss))

\* one pulse: LED on (pin low) for `on` ms, then off (pin high) for `off` ms
Pulse(on, off) ==
    << <<"set_low">>, <<"delay_ms", on>>, <<"set_high">>, <<"delay_ms", off>> >>

\* a pause of `ms` with no write to the pin
Pause(ms) == << <<"delay_ms", ms>> >>

\* the writes in `s`
Writes(s) == SelectSeq(s, LAMBDA e : e[1] # "delay_ms")

\* the pattern at index `index` has run to its end, trailing pause included
Completed(index) == pc = 105 /\ sequence_index = index

----------------------------------------------------------------------------
\* C1: the patterns run in the order Fast, Slow, SOS, Breathing, repeated:
\* the first arm entered is Fast, and the k-th arm entered is the pattern
\* of index (k - 1) mod 4.
PatternOrder == <<"Fast", "Slow", "SOS", "Breathing">>

\* the pattern whose arm holds line `line`, "" outside the four arms
PatternAt(line) ==
    CASE line \in 34..40 -> "Fast"
      [] line \in 45..51 -> "Slow"
      [] line \in 57..81 -> "SOS"
      [] line \in 87..100 -> "Breathing"
      [] OTHER -> ""

C1_CyclicOrder ==
    /\ [](\A k \in 1..Len(executed) :
            executed[k] = PatternOrder[((k - 1) % 4) + 1])
    /\ [](PatternAt(pc) # "" => PatternAt(pc) = PatternOrder[sequence_index + 1])
    /\ [][PatternAt(pc) = "" /\ PatternAt(pc') # "" =>
            PatternAt(pc') = PatternOrder[sequence_index + 1]]_vars
    /\ [][PatternAt(pc) # "" /\ PatternAt(pc') = "" =>
            sequence_index \in 0..3 /\ pc' = 105]_vars
    /\ [][pc = 105 =>
            sequence_index' = (sequence_index + 1) % 4 /\ pc' = 31]_vars

\* the order has wrapped around: Breathing was followed by a second Fast
C1_Witness == Len(executed) >= 6 /\ executed[5] = "Fast" /\ executed[6] = "Slow"

----------------------------------------------------------------------------
\* C2: between patterns the LED is off: from the start of a pattern's
\* trailing pause, through the index update and the next match, up to the
\* next pattern's first set_low, the last write to the pin is set_high.
PauseLines == {40, 51, 81, 100}

EntryLines == {34, 35, 45, 46, 57, 58, 87, 88}

BetweenPatterns ==
    \/ pc \in PauseLines
    \/ pc = 105
    \/ pc = 31 /\ executed # <<>>
    \/ pc \in EntryLines /\ log = <<>> /\ Len(executed) >= 2

C2_OffBetweenPatterns == BetweenPatterns => lastWrite = "set_high"

\* Breathing is over and the second Fast is about to switch the LED on
C2_Witness == pc = 35 /\ log = <<>> /\ Len(executed) = 5 /\ lastWrite = "set_high"

----------------------------------------------------------------------------
\* C3 as stated: one execution of Slow takes about 2000 ms of delay in all
\* (here: within 10 % of 2000 ms).
C3_SlowTotalAbout2000 ==
    Completed(1) => /\ 10 * SumDelays(log) >= 9 * 2000
                    /\ 10 * SumDelays(log) <= 11 * 2000

\* C3, amended: one execution of Slow takes 3000 ms of delay in all: 2 pulses
\* of 500 ms on and 500 ms off, and the 1000 ms pause.
C3_SlowTotal3000 ==
    Completed(1) => SumDelays(log) = 3000 /\ 3000 = 2 * (500 + 500) + 1000

C3_Witness == Completed(1) /\ SumDelays(log) = 3000

----------------------------------------------------------------------------
\* C4 as stated: the delays of one execution of SOS, pauses included, add up
\* to about 5400 ms (here: within 10 % of 5400 ms).
C4_SosTotalAbout5400 ==
    Completed(2) => /\ 10 * SumDelays(log) >= 9 * 5400
                    /\ 10 * SumDelays(log) <= 11 * 5400

\* C4, amended: the delays of one execution of SOS add up to 7200 ms: 6 short
\* pulses of 200 + 200, 3 long pulses of 600 + 200, two 200 ms pauses between
\* the groups and the 2000 ms trailing pause.
C4_SosTotal7200 ==
    Completed(2) =>
        /\ SumDelays(log) = 7200
        /\ 7200 = 6 * (200 + 200) + 3 * (600 + 200) + 2 * 200 + 2000

C4_Witness == Completed(2) /\ SumDelays(log) = 7200 /\ Len(log) = 39

----------------------------------------------------------------------------
\* C5: one execution of SOS is 9 pulses with the on-durations 200, 200, 200,
\* 600, 600, 600, 200, 200, 200, each followed by 200 ms off, with a 200 ms
\* pause after the first and after the second group of three, and the
\* 2000 ms pause after the last pulse of the third group.
SosExpected ==
    Repeat(3, Pulse(200, 200)) \o Pause(200)
        \o Repeat(3, Pulse(600, 200)) \o Pause(200)
        \o Repeat(3, Pulse(200, 200)) \o Pause(2000)

C5_SosPulses ==
    Completed(2) => log = SosExpected /\ Len(Writes(log)) = 2 * 9

C5_Witness == Completed(2) /\ log[Len(log)] = <<"delay_ms", 2000>> /\ lastWrite = "set_high"

----------------------------------------------------------------------------
\* C6: one execution of Fast is exactly 3 pulses of 100 ms on and 100 ms off,
\* then a 1000 ms pause with the LED off; 1600 ms of delay in all.
FastExpected == Repeat(3, Pulse(100, 100)) \o Pause(1000)

C6_FastPulses ==
    /\ pc = 40 /\ sequence_index = 0 => lastWrite = "set_high"
    /\ Completed(0) =>
        /\ log = FastExpected
        /\ lastWrite = "set_high"
        /\ SumDelays(log) = 1600

C6_Witness == Completed(0) /\ Len(log) = 13 /\ SumDelays(log) = 1600

----------------------------------------------------------------------------
\* C7: one execution of Slow is exactly 2 pulses of 500 ms on and 500 ms off,
\* then a 1000 ms pause with the LED off, and nothing else.
SlowExpected == Repeat(2, Pulse(500, 500)) \o Pause(1000)

C7_SlowPulses ==
    /\ pc = 51 /\ sequence_index = 1 => lastWrite = "set_high"
    /\ Completed(1) => log = SlowExpected /\ lastWrite = "set_high"

C7_Witness == Completed(1) /\ Len(log) = 9 /\ lastWrite = "set_high"

----------------------------------------------------------------------------
\* C8: one execution of Breathing is exactly 20 pulses: on 10, 20, ..., 100 ms
\* with off 90, 80, ..., 0 ms, then the same pairs in reverse order, so that
\* on + off = 100 ms in every pulse; then a 500 ms pause.
FadeIn == Flatten([k \in 1..10 |-> Pulse(10 * k, 100 - 10 * k)])

FadeOut == Flatten([k \in 1..10 |-> Pulse(10 * (11 - k), 10 * (k - 1))])

BreathingExpected == FadeIn \o FadeOut \o Pause(500)

C8_BreathingPulses ==
    Completed(3) =>
        /\ log = BreathingExpected
        /\ Len(log) = 4 * 20 + 1
        /\ \A p \in 0..19 :
            /\ log[4 * p + 1] = <<"set_low">>
            /\ log[4 * p + 3] = <<"set_high">>
            /\ log[4 * p + 2][2] + log[4 * p + 4][2] = 100

C8_Witness ==
    /\ Completed(3)
    /\ log[38] = <<"delay_ms", 100>>
    /\ log[40] = <<"delay_ms", 0>>
    /\ log[42] = <<"delay_ms", 100>>

----------------------------------------------------------------------------
\* C9: the delays of one execution of Breathing, trailing pause included, add
\* up to 2 x (the sum of the 10 on + off pairs) + 500 = 2500 ms.
C9_BreathingTotal2500 ==
    Completed(3) =>
        /\ SumDelays(log) = 2500
        /\ SumDelays(log) = 2 * SumDelays(FadeIn) + 500

C9_Witness == Completed(3) /\ SumDelays(log) = 2500 /\ SumDelays(FadeIn) = 1000

----------------------------------------------------------------------------
\* C10: the polarity is inverted everywhere: every on-duration of a pattern
\* is a delay directly after a set_low, every off-duration and every pause is
\* a delay while the last write is set_high, and a write starts an on-phase
\* exactly when it is set_low.

\* the kinds of the durations of a pattern, in order (the pattern table)
PhaseKinds(index) ==
    CASE index = 0 -> Repeat(3, <<"on", "off">>) \o <<"pause">>
      [] index = 1 -> Repeat(2, <<"on", "off">>) \o <<"pause">>
      [] index = 2 -> Repeat(3, <<"on", "off">>) \o <<"pause">>
                        \o Repeat(3, <<"on", "off">>) \o <<"pause">>
                        \o Repeat(3, <<"on", "off">>) \o <<"pause">>
      [] index = 3 -> Repeat(20, <<"on", "off">>) \o <<"pause">>

\* the kind of the delay at position k of the log
KindAt(k) ==
    PhaseKinds(sequence_index)[Len(SelectSeq(SubSeq(log, 1, k), LAMBDA e : e[1] = "delay_ms"))]

\* the last write among the first k entries of the log
LastWriteAt(k) ==
    LET w == Writes(SubSeq(log, 1, k))
    IN  IF w = <<>> THEN "none" ELSE w[Len(w)][1]

C10_InvertedPolarity ==
    pc # 31 =>
        \A k \in 1..Len(log) :
            IF log[k][1] = "delay_ms"
            THEN /\ KindAt(k) = "on" => k > 1 /\ log[k - 1] = <<"set_low">>
                 /\ KindAt(k) # "on" => LastWriteAt(k) = "set_high"
            ELSE k < Len(log) =>
                    /\ log[k + 1][1] = "delay_ms"
                    /\ (log[k] = <<"set_low">>) <=> (KindAt(k + 1) = "on")

\* an on-duration, an off-duration and a pause of SOS have all been requested
C10_Witness ==
    /\ pc = 66 /\ sequence_index = 2
    /\ log[Len(log) - 4] = <<"set_low">>
    /\ KindAt(Len(log) - 3) = "on"
    /\ log[Len(log) - 2] = <<"set_high">>
    /\ KindAt(Len(log) - 1) = "off"
    /\ KindAt(Len(log)) = "pause"
    /\ LastWriteAt(Len(log)) = "set_high"

----------------------------------------------------------------------------
\* C11: the pattern index is 0 when the loop is first entered and is in
\* {0, 1, 2, 3} in every state; only the step of line 105, taken after the
\* pattern and its trailing pause, changes it: no write, delay, loop step or
\* match changes it, and every pattern that completes advances it once.
C11_IndexOnlyAdvanced ==
    /\ [](sequence_index \in 0..3)
    /\ [](pc = 31 /\ executed = <<>> => sequence_index = 0)
    /\ [][sequence_index' # sequence_index => pc = 105 /\ pc' = 31]_vars
    /\ [][pc # 105 => sequence_index' = sequence_index]_vars
    /\ [][pc = 105 => /\ sequence_index' # sequence_index
                      /\ log # <<>> /\ log[Len(log)][1] = "delay_ms"
                      /\ log' = log]_vars
    /\ [][pc' = 105 => PatternAt(pc) # "" /\ pc \in PauseLines]_vars

\* the index has gone 0, 1, 2, 3 and is back at 0 for the fifth pattern
C11_Witness == pc = 31 /\ sequence_index = 0 /\ Len(executed) = 4 /\ log # <<>>

----------------------------------------------------------------------------
\* C12: once initialization has succeeded there is no terminal state: some
\* step is enabled in every state, the loop is never left, and each of Fast,
\* Slow, SOS and Breathing is started again and again.
InitSucceeded == pc \notin {4, 14, 15}

\* the arm at line `line` has just been entered
Started(line) == pc = line /\ log = <<>>

C12_RunsForever ==
    /\ [](InitSucceeded => ENABLED Next)
    /\ [][InitSucceeded => InitSucceeded']_vars
    /\ [](InitSucceeded => []<>Started(34))
    /\ [](InitSucceeded => []<>Started(45))
    /\ [](InitSucceeded => []<>Started(57))
    /\ [](InitSucceeded => []<>Started(87))

\* Breathing is started for the second time
C12_Witness == InitSucceeded /\ Started(87) /\ Len(executed) = 8

----------------------------------------------------------------------------
\* C13: when initialization fails (either take() yields None) the program
\* halts at once and emits nothing: the failing step leads to the halt, no
\* step follows it, and no write, no delay and no pattern has happened.
InitFails ==
    \/ pc = 14 /\ peripherals.device
    \/ pc = 15 /\ peripherals.core

C13_InitFailureHalts ==
    /\ [][InitFails => pc' = 4]_vars
    /\ [](pc = 4 => ~ENABLED Next)
    /\ [](InitFails \/ pc = 4 =>
            lastWrite = "none" /\ log = <<>> /\ executed = <<>>)
    /\ [][pc = 4 => pc' = 4 /\ log' = <<>> /\ lastWrite' = "none"]_vars

\* halted after the device peripherals were found taken
C13_Witness == pc = 4 /\ peripherals.device /\ ~peripherals.core /\ log = <<>>

----------------------------------------------------------------------------
\* C14: what a run emits is fixed by the pattern index alone: at every point
\* of every execution of pattern(i), first or later, the writes and delays
\* emitted so far are the beginning of one fixed sequence for i, the whole of
\* it when the pattern completes, and no loop state is carried from one
\* pattern to the next.  With the index starting at 0 and the order of C1,
\* two runs from index 0 therefore emit the same sequence.
ExpectedLog(index) ==
    CASE index = 0 -> FastExpected
      [] index = 1 -> SlowExpected
      [] index = 2 -> SosExpected
      [] index = 3 -> BreathingExpected

IsPrefix(s, t) == Len(s) <= Len(t) /\ s = SubSeq(t, 1, Len(s))

C14_OutputFixedByIndex ==
    /\ PatternAt(pc) # "" => IsPrefix(log, ExpectedLog(sequence_index))
    /\ pc = 105 => log = ExpectedLog(sequence_index)
    /\ pc \in {31, 105} => ~iter.some
    /\ pc = 31 /\ executed = <<>> => sequence_index = 0 /\ log = <<>>

\* the second execution of Fast, after a Breathing that left i = 1
C14_Witness ==
    /\ pc = 105 /\ sequence_index = 0 /\ Len(executed) = 5
    /\ i = 1 /\ log = FastExpected

----------------------------------------------------------------------------
\* C15: over the whole run the writes alternate, starting with set_low:
\* set_low is never issued while the last write is set_low, set_high is
\* issued only while the last write is set_low, and a delay lies between any
\* two consecutive writes, also across the boundary of two patterns.
IsDelay(e) == e[1] = "delay_ms"

\* the step issues the write w
Issues(w) == log' = Append(log, <<w>>)

C15_WritesAlternate ==
    /\ [][Issues("set_low") => lastWrite # "set_low" /\ lastWrite' = "set_low"]_vars
    /\ [][Issues("set_high") => lastWrite = "set_low" /\ lastWrite' = "set_high"]_vars
    /\ [][lastWrite' # lastWrite => Issues(lastWrite')]_vars
    /\ [][Issues("set_low") \/ Issues("set_high") =>
            log = <<>> \/ IsDelay(log[Len(log)])]_vars
    /\ [](pc \in {31, 105} /\ lastWrite # "none" =>
            log # <<>> /\ IsDelay(log[Len(log)]))
    /\ [][pc = 31 => log' = <<>> /\ lastWrite' = lastWrite]_vars

\* the first set_low of Slow has been issued, after the set_high, the delay
\* and the pause that ended Fast
C15_Witness ==
    /\ pc = 47 /\ log = << <<"set_low">> >>
    /\ lastWrite = "set_low" /\ Len(executed) = 2

----------------------------------------------------------------------------
\* C16: the wildcard arm, which runs Breathing, is entered only with the
\* index at 3: the index is never outside {0, 1, 2, 3}, and the signed
\* remainder of line 105 is never negative.
C16_WildcardOnlyForThree ==
    /\ sequence_index \in 0..3
    /\ Rem(sequence_index + 1, 4) \in 0..3
    /\ PatternAt(pc) = "Breathing" => sequence_index = 3
    /\ pc = 31 => (Arm(sequence_index) = 87 <=> sequence_index = 3)

\* the wildcard arm is entered for the second time, with the index at 3
C16_Witness == pc = 87 /\ log = <<>> /\ sequence_index = 3 /\ Len(executed) = 8

----------------------------------------------------------------------------
\* C17: every duration passed to delay_ms is in 0..2000 and no computation
\* of one underflows or wraps: in Breathing i is in 1..10, and 10 * i and
\* 100 - 10 * i are in 0..100 before the cast, which leaves them unchanged.
\* A delay of 0 ms is requested exactly twice in one Breathing (the
\* off-durations of the two pulses with i = 10) and never in Fast, Slow, SOS.
ZeroDelays(s) == SelectSeq(s, LAMBDA e : IsDelay(e) /\ e[2] = 0)

C17_DurationsInRange ==
    /\ \A k \in 1..Len(log) : IsDelay(log[k]) => log[k][2] \in 0..2000
    /\ pc \in {88, 89, 90, 91, 95, 96, 97, 98} =>
        /\ i \in 1..10
        /\ i * 10 \in 0..100
        /\ 100 - (i * 10) \in 0..100
        /\ AsU32(i * 10) = i * 10
        /\ AsU32(100 - (i * 10)) = 100 - (i * 10)
    /\ Completed(3) =>
        /\ Len(ZeroDelays(log)) = 2
        /\ log[40] = <<"delay_ms", 0>>
        /\ log[44] = <<"delay_ms", 0>>
    /\ PatternAt(pc) \in {"Fast", "Slow", "SOS"} \/ (pc = 105 /\ sequence_index # 3) =>
        ZeroDelays(log) = <<>>

\* a Breathing is complete, with its two delays of 0 ms
C17_Witness ==
    /\ Completed(3)
    /\ ZeroDelays(log) = << <<"delay_ms", 0>>, <<"delay_ms", 0>> >>
    /\ i = 1

====
